---- MODULE Spec2Model ----
(***************************************************************************)
(* char-parrot: model.py.  The two recurrent nets (LSTMnet, GRUnet) with   *)
(* their held hidden state, and CharParrot's train / generate / save /     *)
(* load.  Tensors are abstracted to what the operations of model.py can    *)
(* tell apart: their shape, the history of inputs folded into their values *)
(* since they were last zeroed, and the forward passes their autograd      *)
(* graph still reaches.                                                    *)
(***************************************************************************)
EXTENDS Integers, Sequences, FiniteSets, TLC

\* ------------------------------------------------------------------ bounds
MaxCalls == 2
MaxCheckpointCalls == 3
MaxEpochs == 2
MaxBatches == 2
MaxLength == 2

\* ------------------------------------------------- construction arguments
ModelTypes == {"gru", "lstm"}
BatchSizes == {1, 2}
LayerCounts == {1, 2}
\* dropout probabilities, in percent
Dropouts == {0, 50}
HiddenSizes == {3}
TimeSteps == {2}
Paths == {"ckpt", "other"}
NoPath == "None"
PrevChars == {1, 3}
Seeds == {<<"a">>, <<"b", "a">>, <<"z">>}

VARIABLES
    pc,           \* where the program is: "new", "idle", a step of train or generate, "exited"
    model_type,   \* CharParrot.__init__ arguments
    zero_hidden,
    batch_size,
    nb_layers,
    dropout,
    hidden_size,
    time_steps,
    save_file,
    nb_batches,   \* len(self.dataloader)
    rnn_dropout,  \* the dropout= handed to nn.LSTM / nn.GRU
    hidden,       \* self.model.hidden: a sequence of tensors (2 for LSTM, 1 for GRU)
    dl_pos,       \* dataloader: windows served since its last reset()
    params,       \* model.state_dict(): number of optimizer steps folded in
    opt_state,    \* optimizer.state_dict(): the steps it has taken
    grads,        \* .grad buffers: sequence of the passes whose backward accumulated in them
    freed,        \* forward passes whose graph buffers backward has freed
    files,        \* the file system: path -> checkpoint blob, or NoFile
    call,         \* the running (or last) call: its name, arguments and loop counters
    outputs,      \* the tensor the last forward returned
    loss,         \* the loss tensor of the current window
    text,         \* generate's buffer
    stdout,       \* what the running (or last) call wrote to sys.stdout
    returned,     \* what the last call returned: <<>> is None, <<v>> a value v
    raised,       \* the exception the last call raised, or "none"
    calls,        \* number of calls made so far
    max_calls     \* number of calls the driving program makes

vars == <<pc, model_type, zero_hidden, batch_size, nb_layers, dropout, hidden_size,
          time_steps, save_file, nb_batches, rnn_dropout, hidden, dl_pos, params,
          opt_state, grads, freed, files, call, outputs, loss, text, stdout,
          returned, raised, calls, max_calls>>

\* the constructor's arguments: never assigned after __init__
ctor_args == <<model_type, zero_hidden, batch_size, nb_layers, dropout, hidden_size,
               time_steps, save_file, nb_batches, max_calls>>

NoFile == [exists |-> FALSE]
NoTensor == [batch |-> 0, steps |-> 0, graph |-> {}]
NoCall == [name |-> "none"]
NoInput == [batch |-> 0, steps |-> 0, id |-> 0, pass |-> 0]

\* chardata.characters: the vocabulary, in index order
characters == <<"a", "b">>
nb_characters == Len(characters)

\* chardata.make_sequence(text): each character's vocabulary index (0-based)
CharIndex(c) ==
    (CHOOSE k \in 1..nb_characters : characters[k] = c) - 1

Known(s) ==
    \A k \in 1..Len(s) : \E j \in 1..nb_characters : characters[j] = s[k]

make_sequence(s) ==
    [k \in 1..Len(s) |-> CharIndex(s[k])]

\* s[:n] in place of s[-n:]
PySliceLast_First(s, n) ==
    IF n >= Len(s) THEN s ELSE SubSeq(s, 1, n)

\* Python's s[-n:] : from index len(s)-n, clamped to 0; -0 is 0, the whole of s
PySliceLast(s, n) ==
    IF n <= 0 \/ n >= Len(s) THEN s ELSE SubSeq(s, Len(s) - n + 1, Len(s))

\* torch.chunk(t, chunks, dim) over a dimension of n >= 1 entries: pieces of
\* ceil(n / chunks) entries each, the last one possibly shorter; each piece is the
\* sequence of the indices (1-based) it holds
Chunk(n, chunks) ==
    LET size == (n + chunks - 1) \div chunks
        cnt == (n + size - 1) \div size
    IN [k \in 1..cnt |->
           [j \in 1..((IF k * size < n THEN k * size ELSE n) - (k - 1) * size)
               |-> (k - 1) * size + j]]

\* torch.chunk(outputs, chunks, 1)[-1]
LastChunk(n, chunks) ==
    Chunk(n, chunks)[Len(Chunk(n, chunks))]

\* ------------------------------------------------------------------ tensors
\* torch.zeros(nb_layers, batch_size, hidden_size): no history, no graph
Zeros(layers, bs, hs) ==
    [shape |-> <<layers, bs, hs>>, val |-> <<>>, graph |-> {}]

\* tensor.detach(): a new tensor with the same values and no graph
Detach(t) ==
    [t EXCEPT !.graph = {}]

\* nn.LSTM / nn.GRU take a state only if its batch dimension is the input's
\* (otherwise they raise RuntimeError)
RnnAccepts(h, x) ==
    \A k \in 1..Len(h) : h[k].shape[2] = x.batch

\* nn.LSTM / nn.GRU applied to input x and an accepted state tensor h: the
\* end-of-sequence state has the shape of h, x folded into its values, and (when
\* gradients are recorded) a graph that reaches this pass and all that h reaches.
RnnState(h, x, grad_enabled) ==
    [shape |-> h.shape,
     val |-> Append(h.val, x.id),
     graph |-> IF grad_enabled THEN h.graph \cup {x.pass} ELSE {}]

\* the per-timestep output of the recurrent layer, then dropout and the linear layer
RnnOutput(h, x, grad_enabled) ==
    [batch |-> x.batch, steps |-> x.steps,
     graph |-> IF grad_enabled
               THEN UNION {h[k].graph : k \in 1..Len(h)} \cup {x.pass}
               ELSE {}]

\* ------------------------------------------------------------------ LSTMnet
LSTM_make_hidden(bs) ==
    <<Zeros(nb_layers, bs, hidden_size), Zeros(nb_layers, bs, hidden_size)>>

\* line 50 calls detach() on hidden[0] and drops the result: hidden is unchanged
LSTM_detach_hidden(h, zero) ==
    IF zero THEN LSTM_make_hidden(batch_size) ELSE h

\* LSTM_set_mode with the generate branch sized like training
LSTM_set_mode_SameBatch(h, mode) ==
    IF mode = "train" \/ mode = "generate" THEN LSTM_make_hidden(batch_size) ELSE h

LSTM_set_mode(h, mode) ==
    IF mode = "train" THEN LSTM_make_hidden(batch_size)
    ELSE IF mode = "generate" THEN LSTM_make_hidden(1)
    ELSE h

\* LSTM_dropout without the single-layer rule
LSTM_dropout_Unforced(p, layers) ==
    p

LSTM_dropout(p, layers) ==
    IF layers > 1 THEN p ELSE 0

\* forward: the new hidden state (lines 33-34)
LSTM_forward(h, x, grad_enabled) ==
    LSTM_detach_hidden(<<RnnState(h[1], x, grad_enabled),
                         RnnState(h[2], x, grad_enabled)>>, FALSE)

\* ------------------------------------------------------------------- GRUnet
GRU_make_hidden(bs) ==
    <<Zeros(nb_layers, bs, hidden_size)>>

\* GRU_detach_hidden that zeroes whatever the flag
GRU_detach_hidden_AlwaysZero(h, zero) ==
    GRU_make_hidden(batch_size)

GRU_detach_hidden(h, zero) ==
    IF zero THEN GRU_make_hidden(batch_size) ELSE <<Detach(h[1])>>

\* GRU_set_mode without the train branch
GRU_set_mode_NoTrain(h, mode) ==
    IF mode = "generate" THEN GRU_make_hidden(1) ELSE h

GRU_set_mode(h, mode) ==
    IF mode = "train" THEN GRU_make_hidden(batch_size)
    ELSE IF mode = "generate" THEN GRU_make_hidden(1)
    ELSE h

GRU_dropout(p, layers) ==
    IF layers > 1 THEN p ELSE 0

GRU_forward(h, x, grad_enabled) ==
    GRU_detach_hidden(<<RnnState(h[1], x, grad_enabled)>>, FALSE)

\* --------------------------------------------- self.model (lines 124-134)
Model_make_hidden(bs) ==
    IF model_type = "lstm" THEN LSTM_make_hidden(bs) ELSE GRU_make_hidden(bs)

Model_detach_hidden(h, zero) ==
    IF model_type = "lstm" THEN LSTM_detach_hidden(h, zero) ELSE GRU_detach_hidden(h, zero)

Model_set_mode(h, mode) ==
    IF model_type = "lstm" THEN LSTM_set_mode(h, mode) ELSE GRU_set_mode(h, mode)

Model_forward(h, x, grad_enabled) ==
    IF model_type = "lstm" THEN LSTM_forward(h, x, grad_enabled)
    ELSE GRU_forward(h, x, grad_enabled)

Model_dropout(p, layers) ==
    IF model_type = "lstm" THEN LSTM_dropout(p, layers) ELSE GRU_dropout(p, layers)

\* ------------------------------------------------------------------ state
Start(limit) ==
    /\ pc = "new"
    /\ max_calls = limit
    /\ model_type \in ModelTypes
    /\ zero_hidden \in BOOLEAN
    /\ batch_size \in BatchSizes
    /\ nb_layers \in LayerCounts
    /\ dropout \in Dropouts
    /\ hidden_size \in HiddenSizes
    /\ time_steps \in TimeSteps
    /\ save_file \in {NoPath, "ckpt"}
    /\ nb_batches \in 1..MaxBatches
    /\ rnn_dropout = -1
    /\ hidden = <<>>
    /\ dl_pos = 0
    /\ params = 0
    /\ opt_state = [step |-> 0]
    /\ grads = <<>>
    /\ freed = {}
    /\ files = [p \in Paths |-> NoFile]
    /\ call = NoCall
    /\ outputs = NoTensor
    /\ loss = NoTensor
    /\ text = <<>>
    /\ stdout = <<>>
    /\ returned = <<>>
    /\ raised = "none"
    /\ calls = 0

Init == Start(MaxCalls)

InitCheckpoint == Start(MaxCheckpointCalls)

\* CharParrot.__init__: builds the net (LSTMnet.__init__ / GRUnet.__init__)
Construct ==
    /\ pc = "new"
    /\ pc' = "idle"
    /\ hidden' = Model_make_hidden(batch_size)
    /\ rnn_dropout' = Model_dropout(dropout, nb_layers)
    /\ UNCHANGED <<ctor_args, dl_pos, params, opt_state, grads, freed, files, call,
                   outputs, loss, text, stdout, returned, raised, calls>>

\* what every call starts from: the locals of the previous call are gone
Entered ==
    /\ pc = "idle"
    /\ calls < max_calls
    /\ calls' = calls + 1
    /\ returned' = <<>>

\* ------------------------------------------------------- CharParrot.train
\* lines 141-142, and the entry of both loops
TrainCall(e) ==
    /\ Entered
    /\ hidden' = Model_set_mode(hidden, "train")
    /\ dl_pos' = 0
    /\ call' = [name |-> "train", epochs |-> e, epoch |-> 1, i |-> 1, fetched |-> 0,
                steps |-> 0, trace |-> <<>>, x |-> NoInput]
    \* the graphs of earlier calls' passes are unreachable once hidden is replaced
    /\ freed' = {}
    /\ outputs' = NoTensor
    /\ loss' = NoTensor
    /\ text' = <<>>
    /\ stdout' = <<>>
    /\ raised' = "none"
    /\ pc' = "t_detach"
    /\ UNCHANGED <<ctor_args, rnn_dropout, params, opt_state, grads, files>>

\* line 150
TrainDetach ==
    /\ pc = "t_detach"
    /\ hidden' = Model_detach_hidden(hidden, zero_hidden)
    /\ call' = [call EXCEPT !.trace = <<"detach_hidden">>]
    /\ pc' = "t_zero_grad"
    /\ UNCHANGED <<ctor_args, rnn_dropout, dl_pos, params, opt_state, grads, freed, files,
                   outputs, loss, text, stdout, returned, raised, calls>>

\* line 151 left out: the buffers are not cleared
TrainZeroGrad_Skipped ==
    /\ pc = "t_zero_grad"
    /\ grads' = grads
    /\ call' = [call EXCEPT !.trace = Append(@, "zero_grad")]
    /\ pc' = "t_next"
    /\ UNCHANGED <<ctor_args, rnn_dropout, hidden, dl_pos, params, opt_state, freed, files,
                   outputs, loss, text, stdout, returned, raised, calls>>

\* line 151
TrainZeroGrad ==
    /\ pc = "t_zero_grad"
    /\ grads' = <<>>
    /\ call' = [call EXCEPT !.trace = Append(@, "zero_grad")]
    /\ pc' = "t_next"
    /\ UNCHANGED <<ctor_args, rnn_dropout, hidden, dl_pos, params, opt_state, freed, files,
                   outputs, loss, text, stdout, returned, raised, calls>>

\* the dataloader's __call__: the next window, or ExhaustedBatcherError past the last
DataLoaderNext ==
    IF dl_pos >= nb_batches
    THEN [ok |-> FALSE, pos |-> dl_pos, x |-> NoInput]
    ELSE [ok |-> TRUE, pos |-> dl_pos + 1,
          x |-> [batch |-> batch_size, steps |-> time_steps, id |-> dl_pos + 1,
                 pass |-> call.fetched + 1]]

\* line 152
TrainNextBatch ==
    /\ pc = "t_next"
    /\ dl_pos' = DataLoaderNext.pos
    /\ IF DataLoaderNext.ok
       THEN /\ call' = [call EXCEPT !.trace = Append(@, "next_batch"),
                                    !.fetched = @ + 1,
                                    !.x = DataLoaderNext.x]
            /\ pc' = "t_forward"
            /\ raised' = raised
       ELSE /\ call' = call
            /\ pc' = "idle"
            /\ raised' = "ExhaustedBatcherError"
    /\ UNCHANGED <<ctor_args, rnn_dropout, hidden, params, opt_state, grads, freed, files,
                   outputs, loss, text, stdout, returned, calls>>

\* line 153
TrainForward ==
    /\ pc = "t_forward"
    /\ IF RnnAccepts(hidden, call.x)
       THEN /\ outputs' = RnnOutput(hidden, call.x, TRUE)
            /\ hidden' = Model_forward(hidden, call.x, TRUE)
            /\ call' = [call EXCEPT !.trace = Append(@, "forward")]
            /\ pc' = "t_loss"
            /\ raised' = raised
       ELSE /\ raised' = "RuntimeError"
            /\ pc' = "idle"
            /\ UNCHANGED <<outputs, hidden, call>>
    /\ UNCHANGED <<ctor_args, rnn_dropout, dl_pos, params, opt_state, grads, freed, files,
                   loss, text, stdout, returned, calls>>

\* line 154: the criterion on the last chunk of the outputs
TrainLoss ==
    /\ pc = "t_loss"
    /\ loss' = [batch |-> outputs.batch,
                steps |-> LastChunk(outputs.steps, time_steps),
                graph |-> outputs.graph]
    /\ call' = [call EXCEPT !.trace = Append(@, "loss")]
    /\ pc' = "t_backward"
    /\ UNCHANGED <<ctor_args, rnn_dropout, hidden, dl_pos, params, opt_state, grads, freed,
                   files, outputs, text, stdout, returned, raised, calls>>

\* line 155: backward accumulates into the .grad buffers and frees the graph it walked
TrainBackward ==
    /\ pc = "t_backward"
    /\ loss.graph \cap freed = {}
    /\ grads' = Append(grads, call.x.pass)
    /\ freed' = freed \cup loss.graph
    /\ call' = [call EXCEPT !.trace = Append(@, "backward")]
    /\ pc' = "t_step"
    /\ UNCHANGED <<ctor_args, rnn_dropout, hidden, dl_pos, params, opt_state, files,
                   outputs, loss, text, stdout, returned, raised, calls>>

\* line 155 when the loss's graph reaches a pass whose buffers an earlier backward
\* freed: autograd raises RuntimeError, which train does not catch
TrainBackwardRaises ==
    /\ pc = "t_backward"
    /\ loss.graph \cap freed # {}
    /\ raised' = "RuntimeError"
    /\ pc' = "idle"
    /\ UNCHANGED <<ctor_args, rnn_dropout, hidden, dl_pos, params, opt_state, grads, freed,
                   files, call, outputs, loss, text, stdout, returned, calls>>

\* line 156, and the inner loop's next iteration (line 149)
TrainStep ==
    /\ pc = "t_step"
    /\ params' = params + 1
    /\ opt_state' = [opt_state EXCEPT !.step = @ + 1]
    /\ IF call.i < nb_batches
       THEN /\ call' = [call EXCEPT !.trace = Append(@, "step"), !.steps = @ + 1,
                                    !.i = @ + 1]
            /\ pc' = "t_detach"
       ELSE /\ call' = [call EXCEPT !.trace = Append(@, "step"), !.steps = @ + 1]
            /\ pc' = "t_epoch_end"
    /\ UNCHANGED <<ctor_args, rnn_dropout, hidden, dl_pos, grads, freed, files,
                   outputs, loss, text, stdout, returned, raised, calls>>

\* line 159, and the outer loop's next iteration (line 144)
TrainEpochEnd ==
    /\ pc = "t_epoch_end"
    /\ dl_pos' = 0
    /\ IF call.epoch < call.epochs
       THEN /\ call' = [call EXCEPT !.epoch = @ + 1, !.i = 1]
            /\ pc' = "t_detach"
       ELSE /\ call' = call
            /\ pc' = "t_finish"
    /\ UNCHANGED <<ctor_args, rnn_dropout, hidden, params, opt_state, grads, freed, files,
                   outputs, loss, text, stdout, returned, raised, calls>>

\* ------------------------------------------------- CharParrot.save / load
\* torch.save of the two state dicts
SavedBlob ==
    [exists |-> TRUE, model |-> params, optimizer |-> opt_state]

\* lines 160-163
TrainFinish ==
    /\ pc = "t_finish"
    /\ IF save_file # NoPath
       THEN /\ files' = [files EXCEPT ![save_file] = SavedBlob]
            /\ stdout' = stdout \o <<"Saving progress...", "Progress saved!", "Done!">>
       ELSE /\ files' = files
            /\ stdout' = Append(stdout, "Done!")
    /\ pc' = "idle"
    /\ UNCHANGED <<ctor_args, rnn_dropout, hidden, dl_pos, params, opt_state, grads, freed,
                   call, outputs, loss, text, returned, raised, calls>>

\* a load that leaves the optimizer as constructed
LoadedOptState_Fresh(blob) ==
    [step |-> 0]

\* torch.load, then the two load_state_dict calls (lines 198-200)
LoadedParams(blob) ==
    blob.model

LoadedOptState(blob) ==
    blob.optimizer

\* CharParrot.save
Save(path) ==
    /\ Entered
    /\ call' = [name |-> "save", path |-> path]
    /\ files' = [files EXCEPT ![path] = SavedBlob]
    /\ stdout' = <<"Progress saved!">>
    /\ text' = <<>>
    /\ raised' = "none"
    /\ pc' = "idle"
    /\ UNCHANGED <<ctor_args, rnn_dropout, hidden, dl_pos, params, opt_state, grads, freed,
                   outputs, loss>>

\* CharParrot.load of a path that is a file
Load(path, quiet) ==
    /\ Entered
    /\ files[path].exists
    /\ call' = [name |-> "load", path |-> path, quiet |-> quiet,
                before |-> [model |-> params, optimizer |-> opt_state]]
    /\ params' = LoadedParams(files[path])
    /\ opt_state' = LoadedOptState(files[path])
    /\ stdout' = IF quiet THEN <<>> ELSE <<"Model and optimizer states loaded successfully!">>
    /\ text' = <<>>
    /\ raised' = "none"
    /\ pc' = "idle"
    /\ UNCHANGED <<ctor_args, rnn_dropout, hidden, dl_pos, grads, freed, files,
                   outputs, loss>>

\* CharParrot.load of a path that is no file: lines 194-196, exit(1) raises
\* SystemExit and the process ends
LoadMissing(path, quiet) ==
    /\ Entered
    /\ ~files[path].exists
    /\ call' = [name |-> "load", path |-> path, quiet |-> quiet,
                before |-> [model |-> params, optimizer |-> opt_state]]
    /\ stdout' = <<"ERROR: File does not exist">>
    /\ text' = <<>>
    /\ raised' = "SystemExit"
    /\ pc' = "exited"
    /\ UNCHANGED <<ctor_args, rnn_dropout, hidden, dl_pos, params, opt_state, grads, freed,
                   files, outputs, loss>>

\* ---------------------------------------------------- CharParrot.generate
\* lines 167-170, and the entry of the loop
GenerateCall(seed, length, prev_chars, quiet) ==
    /\ Entered
    /\ hidden' = Model_set_mode(hidden, "generate")
    /\ text' = seed
    /\ stdout' = (IF quiet THEN <<>> ELSE <<"# Generated text (including seed) #">>) \o seed
    /\ call' = [name |-> "generate", seed |-> seed, length |-> length,
                prev_chars |-> prev_chars, quiet |-> quiet, done |-> 0,
                sequence |-> <<>>, output |-> <<>>]
    /\ outputs' = NoTensor
    /\ loss' = NoTensor
    /\ raised' = "none"
    /\ pc' = IF length > 0 THEN "g_forward" ELSE "g_end"
    /\ UNCHANGED <<ctor_args, rnn_dropout, dl_pos, params, opt_state, grads, freed, files>>

\* lines 173-177, under torch.no_grad(): no graph is recorded
GenForward ==
    /\ pc = "g_forward"
    /\ Known(PySliceLast(text, call.prev_chars))
    /\ LET sequence == make_sequence(PySliceLast(text, call.prev_chars))
           inputs == [batch |-> 1, steps |-> Len(sequence), id |-> sequence, pass |-> 0]
       IN IF RnnAccepts(hidden, inputs)
          THEN /\ outputs' = RnnOutput(hidden, inputs, FALSE)
               /\ hidden' = Model_forward(hidden, inputs, FALSE)
               /\ call' = [call EXCEPT !.sequence = sequence,
                                       !.output = LastChunk(Len(sequence), call.prev_chars)]
               /\ pc' = "g_sample"
               /\ raised' = raised
          ELSE /\ raised' = "RuntimeError"
               /\ pc' = "idle"
               /\ UNCHANGED <<outputs, hidden, call>>
    /\ UNCHANGED <<ctor_args, rnn_dropout, dl_pos, params, opt_state, grads, freed, files,
                   loss, text, stdout, returned, calls>>

\* line 174 on a character the vocabulary does not hold
GenForwardRaises ==
    /\ pc = "g_forward"
    /\ ~Known(PySliceLast(text, call.prev_chars))
    /\ raised' = "UnknownCharacterError"
    /\ pc' = "idle"
    /\ UNCHANGED <<ctor_args, rnn_dropout, hidden, dl_pos, params, opt_state, grads, freed,
                   files, call, outputs, loss, text, stdout, returned, calls>>

\* the loop of line 172 running once too often
GenSample_OneMore ==
    /\ pc = "g_sample"
    /\ \E prediction \in 0..(nb_characters - 1) :
          /\ text' = Append(text, characters[prediction + 1])
          /\ stdout' = Append(stdout, characters[prediction + 1])
    /\ call' = [call EXCEPT !.done = @ + 1]
    /\ pc' = IF call.done + 1 <= call.length THEN "g_forward" ELSE "g_end"
    /\ UNCHANGED <<ctor_args, rnn_dropout, hidden, dl_pos, params, opt_state, grads, freed,
                   files, outputs, loss, returned, raised, calls>>

\* lines 178-182: any index may be drawn, whatever the temperature > 0
GenSample ==
    /\ pc = "g_sample"
    /\ \E prediction \in 0..(nb_characters - 1) :
          /\ text' = Append(text, characters[prediction + 1])
          /\ stdout' = Append(stdout, characters[prediction + 1])
    /\ call' = [call EXCEPT !.done = @ + 1]
    /\ pc' = IF call.done + 1 < call.length THEN "g_forward" ELSE "g_end"
    /\ UNCHANGED <<ctor_args, rnn_dropout, hidden, dl_pos, params, opt_state, grads, freed,
                   files, outputs, loss, returned, raised, calls>>

\* line 183; the function ends without a return statement
GenEnd ==
    /\ pc = "g_end"
    /\ stdout' = Append(stdout, "\n")
    /\ returned' = <<>>
    /\ pc' = "idle"
    /\ UNCHANGED <<ctor_args, rnn_dropout, hidden, dl_pos, params, opt_state, grads, freed,
                   files, call, outputs, loss, text, raised, calls>>

\* ------------------------------------------------------- specifications
\* the steps inside a running train call
TrainSteps ==
    \/ TrainDetach
    \/ TrainZeroGrad
    \/ TrainNextBatch
    \/ TrainForward
    \/ TrainLoss
    \/ TrainBackward
    \/ TrainBackwardRaises
    \/ TrainStep
    \/ TrainEpochEnd
    \/ TrainFinish

\* the steps inside a running generate call
GenerateSteps ==
    \/ GenForward
    \/ GenForwardRaises
    \/ GenSample
    \/ GenEnd

\* a program that constructs a CharParrot and makes up to MaxCalls calls on it
Next ==
    \/ Construct
    \/ \E e \in 1..MaxEpochs : TrainCall(e)
    \/ \E path \in Paths : Save(path)
    \/ \E path \in Paths, quiet \in BOOLEAN : Load(path, quiet)
    \/ \E path \in Paths, quiet \in BOOLEAN : LoadMissing(path, quiet)
    \/ \E seed \in Seeds, length \in 0..MaxLength, prev_chars \in PrevChars, quiet \in BOOLEAN :
          GenerateCall(seed, length, prev_chars, quiet)
    \/ TrainSteps
    \/ GenerateSteps

Spec == Init /\ [][Next]_vars

\* a program that only trains, saves and loads, up to MaxCheckpointCalls calls
NextCheckpoint ==
    \/ Construct
    \/ \E e \in 1..MaxEpochs : TrainCall(e)
    \/ \E path \in Paths : Save(path)
    \/ \E path \in Paths, quiet \in BOOLEAN : Load(path, quiet)
    \/ \E path \in Paths, quiet \in BOOLEAN : LoadMissing(path, quiet)
    \/ TrainSteps

SpecCheckpoint == InitCheckpoint /\ [][NextCheckpoint]_vars

\* ------------------------------------------------------------- properties
Min(a, b) == IF a < b THEN a ELSE b

AfterForward == pc \in {"t_loss", "g_sample"}

Header(quiet) == IF quiet THEN <<>> ELSE <<"# Generated text (including seed) #">>

\* the windows a train call has served before its n-th, in order
WindowsBefore(n) ==
    [j \in 1..(n - 1) |-> ((j - 1) % nb_batches) + 1]

GenerateReturned ==
    pc = "idle" /\ call.name = "generate" /\ raised = "none"

TrainEnded ==
    pc = "idle" /\ call.name = "train"

\* C1: after every forward pass, every tensor of the held hidden state has no
\* autograd graph, and the graph of a window's loss reaches that window's pass only.
C1_HiddenDetached ==
    /\ AfterForward => \A k \in 1..Len(hidden) : hidden[k].graph = {}
    /\ pc = "t_backward" => loss.graph \subseteq {call.x.pass}

\* C2 as stated: before the first window of every epoch of train the held hidden
\* state is a freshly zeroed state of the training batch size, whatever zero_hidden.
C2_ZeroedEveryEpoch ==
    (pc = "t_forward" /\ call.i = 1) => hidden = Model_make_hidden(batch_size)

\* C2 as amended: the model is set to train mode once per train call, so the held
\* state is freshly zeroed when the first epoch starts, and before the first window
\* of the first epoch or, with zero_hidden, of any epoch; without zero_hidden a later
\* epoch's first window starts from the state the previous epoch's windows left,
\* still of the training batch size.
C2_ZeroedFirstEpoch ==
    /\ (pc = "t_detach" /\ call.i = 1 /\ call.epoch = 1) =>
           \A k \in 1..Len(hidden) :
               hidden[k] = Zeros(nb_layers, batch_size, hidden_size)
    /\ (pc = "t_forward" /\ call.i = 1) =>
           \A k \in 1..Len(hidden) :
               /\ hidden[k].shape = <<nb_layers, batch_size, hidden_size>>
               /\ (call.epoch = 1 \/ zero_hidden) =>
                      hidden[k].val = <<>> /\ hidden[k].graph = {}
               /\ (call.epoch > 1 /\ ~zero_hidden) =>
                      /\ hidden[k].val = WindowsBefore(call.fetched)
                      /\ Len(hidden[k].val) = (call.epoch - 1) * nb_batches

C2_Witness ==
    /\ pc = "t_forward" /\ call.i = 1 /\ call.epoch = 2
    /\ ~zero_hidden /\ model_type = "gru"
    /\ hidden[1].val # <<>>

\* C3, state part: at every forward pass and right after it the held state is two
\* (LSTM) or one (GRU) tensors of shape (nb_layers, b, hidden_size), b the batch
\* dimension of the pass's input: batch_size inside train, 1 inside generate.
C3_ShapeAtForward ==
    /\ pc # "new" => Len(hidden) = (IF model_type = "lstm" THEN 2 ELSE 1)
    /\ pc \in {"t_forward", "t_loss"} =>
           /\ call.x.batch = batch_size
           /\ \A k \in 1..Len(hidden) :
                  hidden[k].shape = <<nb_layers, call.x.batch, hidden_size>>
    /\ pc = "t_loss" => outputs.batch = batch_size
    /\ pc = "g_forward" =>
           \A k \in 1..Len(hidden) : hidden[k].shape = <<nb_layers, 1, hidden_size>>
    /\ pc = "g_sample" =>
           /\ outputs.batch = 1
           /\ \A k \in 1..Len(hidden) :
                  hidden[k].shape = <<nb_layers, outputs.batch, hidden_size>>
    /\ raised # "RuntimeError" \/ call.name = "train"

\* C3, step part: the shapes of the held state change only at construction, at the
\* set_mode that opens train and generate, or at a zeroing detach_hidden.
C3_ShapeStep ==
    [k \in 1..Len(hidden') |-> hidden'[k].shape] # [k \in 1..Len(hidden) |-> hidden[k].shape]
        => \/ pc = "new"
           \/ pc = "idle" /\ call'.name \in {"train", "generate"}
           \/ pc = "t_detach" /\ zero_hidden

\* C3: the held hidden state has the batch dimension of every pass's input, and its
\* shape changes only through set_mode or a zeroing reset, never through forward.
C3_HiddenShape ==
    []C3_ShapeAtForward /\ [][C3_ShapeStep]_vars

C3_Witness ==
    /\ pc = "g_sample" /\ calls = 2 /\ batch_size = 2 /\ model_type = "lstm"
    /\ hidden[1].shape = <<nb_layers, 1, hidden_size>>
    /\ hidden[2].shape = <<nb_layers, 1, hidden_size>>

\* C4 as stated: generate returns the buffer, the seed followed by exactly `length`
\* characters of the vocabulary.
C4_ReturnsBuffer ==
    GenerateReturned =>
        /\ returned = <<text>>
        /\ Len(text) = Len(call.seed) + call.length

\* C4 as amended: generate returns nothing (None); the buffer it built and wrote to
\* standard output is the seed followed by exactly `length` characters of the
\* vocabulary.
C4_WritesBuffer ==
    GenerateReturned =>
        /\ returned = <<>>
        /\ Len(text) = Len(call.seed) + call.length
        /\ SubSeq(text, 1, Len(call.seed)) = call.seed
        /\ \A k \in (Len(call.seed) + 1)..Len(text) :
               \E j \in 1..nb_characters : text[k] = characters[j]
        /\ stdout = Header(call.quiet) \o text \o <<"\n">>

C4_Witness ==
    GenerateReturned /\ call.length = 2 /\ Len(call.seed) = 2 /\ Len(text) = 4

\* C5: with zero_hidden every window's forward pass starts from an all-zero state of
\* the training batch size; without it every window after the first starts from
\* exactly the values the previous windows' passes left, never zeroed in between.
C5_ZeroHiddenPolicy ==
    pc = "t_forward" =>
        \A k \in 1..Len(hidden) :
            /\ hidden[k].shape[2] = batch_size
            /\ hidden[k].val = (IF zero_hidden THEN <<>> ELSE WindowsBefore(call.fetched))

C5_Witness ==
    /\ pc = "t_forward" /\ ~zero_hidden /\ call.fetched >= 2
    /\ hidden[1].val # <<>>

\* C6 as stated: load of a path that is no file fails with FileNotFoundError and
\* leaves parameters and optimizer state unchanged; otherwise both are restored.
C6_FileNotFound ==
    call.name = "load" =>
        IF files[call.path].exists
        THEN params = files[call.path].model /\ opt_state = files[call.path].optimizer
        ELSE /\ raised = "FileNotFoundError"
             /\ params = call.before.model /\ opt_state = call.before.optimizer

\* C6 as amended: load of a path that is no file prints an error and ends the
\* process with exit(1) (SystemExit), parameters and optimizer state unchanged;
\* otherwise it restores both to the values save wrote to that file.
C6_LoadRestores ==
    call.name = "load" =>
        IF files[call.path].exists
        THEN /\ pc = "idle" /\ raised = "none"
             /\ params = files[call.path].model
             /\ opt_state = files[call.path].optimizer
        ELSE /\ pc = "exited" /\ raised = "SystemExit"
             /\ stdout = <<"ERROR: File does not exist">>
             /\ params = call.before.model /\ opt_state = call.before.optimizer

\* a load that changed both: the file holds an older state than the one in memory
C6_Witness ==
    /\ call.name = "load" /\ pc = "idle"
    /\ params # call.before.model
    /\ opt_state # call.before.optimizer
    /\ opt_state = files[call.path].optimizer

\* C7: the dropout handed to the recurrent layer is the requested dropout when
\* nb_layers > 1 and 0 when nb_layers = 1, for both nets.
C7_RnnDropout ==
    pc # "new" =>
        /\ nb_layers > 1 => rnn_dropout = dropout
        /\ nb_layers = 1 => rnn_dropout = 0

C7_Witness ==
    pc # "new" /\ nb_layers = 1 /\ dropout > 0 /\ rnn_dropout = 0

C10_LastWindowLastStep ==
    pc = "g_sample" =>
        LET n == Min(Len(text), call.prev_chars)
        IN /\ n >= 1
           /\ call.sequence = [k \in 1..n |-> CharIndex(text[Len(text) - n + k])]
           /\ outputs.steps = n
           /\ call.output = <<n>>

C10_Witness ==
    /\ pc = "g_sample" /\ Len(text) < call.prev_chars
    /\ call.output = <<Len(text)>>
====
